---- MODULE Spec2Model ----
(***************************************************************************)
(* CSPDatabaseBuilder.create_sut_file (src/server.py): the builder of a    *)
(* Clip Studio Paint .sut file.  The scratch SQLite database is modelled   *)
(* as four tables (sequences of rows); every INSERT and UPDATE of the      *)
(* builder is applied to them in the order the code issues it.             *)
(*                                                                         *)
(* Values.  A BLOB is a sequence of bytes; the 16 random bytes of a node   *)
(* UUID are abstracted to two bytes over {0, 1}, so that <<0, 0>> stands   *)
(* for "16 zero bytes" and <<0>> for the single byte b'\x00'.  SQL NULL in *)
(* a BLOB column is NULL, in an INTEGER column NullInt.  Python None for a *)
(* string or bytes value is the string "None".                             *)
(*                                                                         *)
(* Three specifications share the variables.  Spec is one call of          *)
(* create_sut_file, statement by statement, with the exception path of its *)
(* try block.  SpecConvert is one request to the convert endpoint, which   *)
(* collects brushes from the uploaded files and then runs the same builder *)
(* steps.  SpecRandom is two builds served at the same time, reduced to    *)
(* their draws from the generator of the random module.                    *)
(***************************************************************************)
EXTENDS Integers, Sequences, FiniteSets, TLC

VARIABLES
    pc,                 \* position in create_sut_file
    brushes,            \* argument: the brush list
    settings,           \* argument: the settings map, a set of <<key, value>>
    i,                  \* for i, brush in enumerate(brushes), 1-based
    root_uuid,          \* local of create_sut_file
    variant_id_counter, \* local of create_sut_file
    prev_node_uuid,     \* local of create_sut_file
    first_brush_uuid,   \* local of create_sut_file
    first_variant_id,   \* local of create_sut_file
    Manager,            \* table Manager of the scratch database
    Node,               \* table Node
    Variant,            \* table Variant
    MaterialFile,       \* table MaterialFile
    log,                \* history: the tables INSERTed into, in order
    sut_data,           \* local sut_data: the bytes read back from the scratch file
    returned,           \* what create_sut_file returned to its caller
    conn,               \* self.conn: "none", "open" or "closed"
    closes,             \* history: calls of self.conn.close()
    unlinks,            \* history: calls of os.unlink(db_path)
    file_exists,        \* os.path.exists(db_path)
    disk,               \* content of the scratch file: the committed rows
    step_failed,        \* history: some step of the build failed
    temp_pngs,          \* temporary .png files of _insert_material_file on disk
    files,              \* convert: request.files.getlist('files')
    fpos,               \* convert: position of the loop over files
    invoked,            \* convert history: create_sut_file was called
    response,           \* convert: the HTTP response
    rng,                \* the state of the process-wide generator of `random`
    rpc,                \* per concurrent build: "idle", "running" or "done"
    seeded,             \* per concurrent build: the seed it was given
    start,              \* per concurrent build: the generator state it started from
    drawn,              \* per concurrent build: the generator outputs it drew
    candidate,          \* validator: the file given to validate_sut_file
    verdict             \* validator: "none", or what validate_sut_file returned

locals == <<i, root_uuid, variant_id_counter, prev_node_uuid, first_brush_uuid,
            first_variant_id>>

tables == <<Manager, Node, Variant, MaterialFile>>

resources == <<conn, closes, unlinks, file_exists, disk>>

buildVars == <<pc, brushes, settings, locals, tables, log, sut_data, returned, resources,
               step_failed, temp_pngs>>

convVars == <<files, fpos, invoked, response>>

randVars == <<rng, rpc, seeded, start, drawn>>

valVars == <<candidate, verdict>>

vars == <<buildVars, convVars, randVars, valVars>>

-----------------------------------------------------------------------------
(* Bounds and input domains *)

MaxBrushes == 2

\* _generate_uuid: every value of 16 random bytes, here two bytes over {0,1}
NodeUuids == {<<0, 0>>, <<0, 1>>, <<1, 0>>, <<1, 1>>}

\* _generate_material_uuid: dashed hex strings, two sample values
MaterialUuids == {"m1", "m2"}

\* a brush dict: an ABR placeholder (image_data None) or a processed image;
\* the first name holds XML-special characters
BrushInputs == {[name |-> "<A&>", image_data |-> "None"],
                [name |-> "B", image_data |-> "PNG"]}

\* how encoder.encode / create_material_filedata can end
EncodeOutcomes == {"ok", "invalid", "raise"}

RECURSIVE SeqsUpTo(_, _)
SeqsUpTo(S, n) ==
    IF n = 0 THEN {<<>>}
    ELSE LET shorter == SeqsUpTo(S, n - 1)
         IN  shorter \cup {Append(s, x) : s \in {t \in shorter : Len(t) = n - 1}, x \in S}

-----------------------------------------------------------------------------
(* Values *)

NULL == <<-1>>
NullInt == -1
None == "None"
ZeroUuid == <<0, 0>>
ZeroByte == <<0>>

\* Python truthiness of a str / bytes / None value
Truthy(x) == x # None /\ x # ""

\* Python truthiness of an int-or-None local (first_variant_id)
TruthyInt(x) == x # NullInt /\ x # 0

\* Python truthiness of a bytes-or-None local (a node UUID)
TruthyBlob(x) == x # NULL /\ x # <<>>

-----------------------------------------------------------------------------
(* SQLite: INSERT with an AUTOINCREMENT key, UPDATE ... WHERE *)

RECURSIVE MaxPwId(_)
MaxPwId(table) ==
    IF table = <<>> THEN 0
    ELSE LET rest == MaxPwId(Tail(table))
         IN  IF Head(table).PW_ID > rest THEN Head(table).PW_ID ELSE rest

InsertRow(table, row) == Append(table, ("PW_ID" :> (MaxPwId(table) + 1)) @@ row)

\* UPDATE Node SET NodeNextUuid = value WHERE NodeUuid = key
UpdateNodeNext(table, value, key) ==
    [k \in 1..Len(table) |->
        IF table[k].NodeUuid = key
        THEN [table[k] EXCEPT !.NodeNextUuid = value]
        ELSE table[k]]

\* UPDATE Node SET NodeFirstChildUuid = value WHERE NodeUuid = key
UpdateNodeFirstChild(table, value, key) ==
    [k \in 1..Len(table) |->
        IF table[k].NodeUuid = key
        THEN [table[k] EXCEPT !.NodeFirstChildUuid = value]
        ELSE table[k]]

\* UPDATE Manager SET MaxVariantID, CurrentNodeUuid, CommonVariantID WHERE _PW_ID = 1
UpdateManager(table, max_variant_id, current_node_uuid, common_variant_id) ==
    [k \in 1..Len(table) |->
        IF table[k].PW_ID = 1
        THEN [table[k] EXCEPT !.MaxVariantID = max_variant_id,
                              !.CurrentNodeUuid = current_node_uuid,
                              !.CommonVariantID = common_variant_id]
        ELSE table[k]]

-----------------------------------------------------------------------------
(* CSPDatabaseBuilder helpers *)

\* mutant of InsertManager: root_uuid and current_node_uuid bound to each
\* other's column
InsertManagerSwapped(table, root, current_node_uuid, common_variant_id) ==
    LET current == IF current_node_uuid = NULL THEN ZeroByte ELSE current_node_uuid
        common  == IF common_variant_id = NullInt THEN 1001 ELSE common_variant_id
    IN  InsertRow(table, [ToolType        |-> 0,
                          Version         |-> 126,
                          RootUuid        |-> current,
                          CurrentNodeUuid |-> root,
                          MaxVariantID    |-> 1000,
                          CommonVariantID |-> common,
                          ObjectNodeUuid  |-> root,
                          SavedCount      |-> 0])

\* _insert_manager(root_uuid, current_node_uuid=None, common_variant_id=None)
InsertManager(table, root, current_node_uuid, common_variant_id) ==
    LET current == IF current_node_uuid = NULL THEN ZeroByte ELSE current_node_uuid
        common  == IF common_variant_id = NullInt THEN 1001 ELSE common_variant_id
    IN  InsertRow(table, [ToolType        |-> 0,
                          Version         |-> 126,
                          RootUuid        |-> root,
                          CurrentNodeUuid |-> current,
                          MaxVariantID    |-> 1000,
                          CommonVariantID |-> common,
                          ObjectNodeUuid  |-> root,
                          SavedCount      |-> 0])

\* _insert_root_node(root_uuid, package_name); columns not named stay NULL
InsertRootNode(table, root, package_name) ==
    InsertRow(table, [NodeUuid           |-> root,
                      NodeName           |-> package_name,
                      NodeNextUuid       |-> NULL,
                      NodeFirstChildUuid |-> NULL,
                      NodeVariantID      |-> NullInt,
                      NodeInitVariantID  |-> NullInt])

\* len(s.encode('utf-16le') + b'\x00\x00') for a string given as its pieces
RECURSIVE Chars(_)
Chars(pieces) == IF pieces = <<>> THEN 0 ELSE Len(Head(pieces)) + Chars(Tail(pieces))
Utf16Len(pieces) == 2 * Chars(pieces) + 2

\* mutant of EncodeBrushPatternArray: data_length leaves out the type/flags
\* section
EncodeBrushPatternArrayShort(brush_name, material_uuid, png_data) ==
    IF ~Truthy(material_uuid) \/ ~Truthy(png_data)
    THEN [order      |-> "big",
          header     |-> <<8, 1, 0, 0>>,
          ref        |-> <<>>,
          type_flags |-> <<>>,
          name       |-> <<>>,
          png        |-> <<>>]
    ELSE LET ref_string  == <<".:12:45:", material_uuid, ":data:material_0.layer">>
             name_string == <<brush_name>>
             data_length == Utf16Len(ref_string) + Utf16Len(name_string)
                            + Len(png_data)
         IN  [order      |-> "big",
              header     |-> <<8, 1, data_length, 132>>,
              ref        |-> ref_string,
              type_flags |-> <<2, 20>>,
              name       |-> name_string,
              png        |-> <<png_data>>]

\* _encode_brush_pattern_array(brush_name, material_uuid, png_data): the blob
\* as its sections, each header word with the byte order struct.pack is given
EncodeBrushPatternArray(brush_name, material_uuid, png_data) ==
    IF ~Truthy(material_uuid) \/ ~Truthy(png_data)
    THEN [order      |-> "big",
          header     |-> <<8, 1, 0, 0>>,
          ref        |-> <<>>,
          type_flags |-> <<>>,
          name       |-> <<>>,
          png        |-> <<>>]
    ELSE LET ref_string  == <<".:12:45:", material_uuid, ":data:material_0.layer">>
             name_string == <<brush_name>>
             data_length == Utf16Len(ref_string) + 8 + Utf16Len(name_string)
                            + Len(png_data)
         IN  [order      |-> "big",
              header     |-> <<8, 1, data_length, 132>>,
              ref        |-> ref_string,
              type_flags |-> <<2, 20>>,
              name       |-> name_string,
              png        |-> <<png_data>>]

\* where _insert_material_file raises: "before" the temporary .png exists
\* (the imports, NamedTemporaryFile), at the "encode" (temp_png.write,
\* encoder.encode), or "after" os.unlink(temp_png.name)
\* (create_material_filedata, the INSERT)
RaisePoints == {"before", "encode", "after"}

\* the temporary .png files one _insert_material_file call leaves behind:
\* os.unlink(temp_png.name) is a plain statement after encoder.encode, so
\* it is skipped when the write or the encode raises
TempPngLeft(brush, outcome, raised_at) ==
    IF Truthy(brush.image_data) /\ outcome = "raise" /\ raised_at = "encode"
    THEN 1 ELSE 0

\* _insert_material_file(material_uuid, png_data, brush_name): the row is
\* inserted only when encoding and archive construction succeed; an invalid
\* layer returns early and any exception is caught and printed
InsertMaterialFile(table, material_uuid, png_data, brush_name, outcome) ==
    IF outcome = "ok"
    THEN InsertRow(table,
            [InstallFolder |-> 0,
             OriginalPath  |-> <<".:", material_uuid, ":data:material_0.layer">>,
             FileData      |-> <<"tar", png_data, brush_name, material_uuid>>,
             CatalogPath   |-> <<".:", material_uuid>>,
             MaterialUuid  |-> None])
    ELSE table

\* settings.get(key, default)
SettingsGet(map, key, default) ==
    IF \E p \in map : p[1] = key
    THEN (CHOOSE p \in map : p[1] = key)[2]
    ELSE default

\* float(x): the REAL value SQLite stores for the number x
Float(x) == <<"float", x>>

\* _encode_effector_blob(enabled, default_curve): NULL when not enabled,
\* else '<II' 1, 0, '<I' 2 and the points (0.0, 0.0), (1.0, 1.0) as '<ff'
EncodeEffectorBlob(enabled) ==
    IF enabled = 0 THEN NULL
    ELSE <<1, 0, 0, 0,  0, 0, 0, 0,  2, 0, 0, 0,
           0, 0, 0, 0,  0, 0, 0, 0,  0, 0, 128, 63,  0, 0, 128, 63>>

\* mutant of VariantRow: BrushUsePatternImage is always 1
VariantRowAlwaysPattern(variant_id, brush, material_uuid, png_data, map) ==
    [VariantID              |-> variant_id,
     Opacity                |-> SettingsGet(map, "opacity", 100),
     AntiAlias              |-> 1,
     CompositeMode          |-> 0,
     BrushSize              |-> Float(SettingsGet(map, "size", 50)),
     BrushSizeUnit          |-> 0,
     BrushSizeEffector      |-> EncodeEffectorBlob(SettingsGet(map, "sizePressure", 0)),
     BrushFlow              |-> SettingsGet(map, "opacity", 100),
     BrushFlowEffector      |-> EncodeEffectorBlob(SettingsGet(map, "opacityPressure", 0)),
     BrushHardness          |-> SettingsGet(map, "hardness", 50),
     BrushInterval          |-> Float(SettingsGet(map, "spacing", 10)),
     BrushThickness         |-> 100,
     BrushRotation          |-> Float(SettingsGet(map, "angle", 0)),
     BrushUsePatternImage   |-> 1,
     BrushPatternImageArray |-> EncodeBrushPatternArray(brush.name, material_uuid, png_data)]

\* the Variant row _insert_brush inserts for one VariantID: (variant_id,) +
\* variant_data
VariantRow(variant_id, brush, material_uuid, png_data, map) ==
    [VariantID              |-> variant_id,
     Opacity                |-> SettingsGet(map, "opacity", 100),
     AntiAlias              |-> 1,
     CompositeMode          |-> 0,
     BrushSize              |-> Float(SettingsGet(map, "size", 50)),
     BrushSizeUnit          |-> 0,
     BrushSizeEffector      |-> EncodeEffectorBlob(SettingsGet(map, "sizePressure", 0)),
     BrushFlow              |-> SettingsGet(map, "opacity", 100),
     BrushFlowEffector      |-> EncodeEffectorBlob(SettingsGet(map, "opacityPressure", 0)),
     BrushHardness          |-> SettingsGet(map, "hardness", 50),
     BrushInterval          |-> Float(SettingsGet(map, "spacing", 10)),
     BrushThickness         |-> 100,
     BrushRotation          |-> Float(SettingsGet(map, "angle", 0)),
     BrushUsePatternImage   |-> IF Truthy(material_uuid) THEN 1 ELSE 0,
     BrushPatternImageArray |-> EncodeBrushPatternArray(brush.name, material_uuid, png_data)]

\* mutant of BrushNodeRow: the name is stored XML-escaped
BrushNodeRowEscaped(node_uuid, brush, variant_id, init_variant_id) ==
    [NodeUuid           |-> node_uuid,
     NodeName           |-> IF brush.name = "<A&>" THEN "&lt;A&amp;&gt;" ELSE brush.name,
     NodeNextUuid       |-> NULL,
     NodeFirstChildUuid |-> NULL,
     NodeVariantID      |-> variant_id,
     NodeInitVariantID  |-> init_variant_id]

\* the Node row _insert_brush inserts
BrushNodeRow(node_uuid, brush, variant_id, init_variant_id) ==
    [NodeUuid           |-> node_uuid,
     NodeName           |-> brush.name,
     NodeNextUuid       |-> NULL,
     NodeFirstChildUuid |-> NULL,
     NodeVariantID      |-> variant_id,
     NodeInitVariantID  |-> init_variant_id]

\* mutant of LinkPrevious: the UPDATE's two parameters in the wrong order
LinkPreviousSwapped(table, node_uuid, prev) ==
    IF TruthyBlob(prev) THEN UpdateNodeNext(table, prev, node_uuid) ELSE table

\* "Link previous node to this one"
LinkPrevious(table, node_uuid, prev) ==
    IF TruthyBlob(prev) THEN UpdateNodeNext(table, node_uuid, prev) ELSE table

\* mutant of InsertBrush: the Node row inserted before the two Variant rows
InsertBrushNodeFirst(db, brush, variant_id, init_variant_id, prev, node_uuid, material, outcome, map) ==
    LET has_image     == Truthy(brush.image_data)
        material_uuid == IF has_image THEN material ELSE None
        png_data      == IF has_image THEN brush.image_data ELSE None
        mf1  == IF has_image
                THEN InsertMaterialFile(db.MaterialFile, material_uuid, png_data,
                                        brush.name, outcome)
                ELSE db.MaterialFile
        log1 == IF Len(mf1) > Len(db.MaterialFile)
                THEN Append(db.log, "MaterialFile") ELSE db.log
        n1   == InsertRow(db.Node,
                          BrushNodeRow(node_uuid, brush, variant_id, init_variant_id))
        v1   == InsertRow(db.Variant,
                          VariantRow(variant_id, brush, material_uuid, png_data, map))
        v2   == InsertRow(v1, VariantRow(init_variant_id, brush, material_uuid, png_data,
                                         map))
        n2   == LinkPrevious(n1, node_uuid, prev)
    IN  [Node         |-> n2,
         Variant      |-> v2,
         MaterialFile |-> mf1,
         log          |-> log1 \o <<"Node", "Variant", "Variant">>]

\* _insert_brush(brush, variant_id, init_variant_id, prev_node_uuid, settings)
\* on the database db, with node_uuid and material the values the two UUID
\* generators return and outcome how _insert_material_file ends
InsertBrush(db, brush, variant_id, init_variant_id, prev, node_uuid, material, outcome, map) ==
    LET has_image     == Truthy(brush.image_data)
        material_uuid == IF has_image THEN material ELSE None
        png_data      == IF has_image THEN brush.image_data ELSE None
        mf1  == IF has_image
                THEN InsertMaterialFile(db.MaterialFile, material_uuid, png_data,
                                        brush.name, outcome)
                ELSE db.MaterialFile
        log1 == IF Len(mf1) > Len(db.MaterialFile)
                THEN Append(db.log, "MaterialFile") ELSE db.log
        v1   == InsertRow(db.Variant,
                          VariantRow(variant_id, brush, material_uuid, png_data, map))
        v2   == InsertRow(v1, VariantRow(init_variant_id, brush, material_uuid, png_data,
                                         map))
        n1   == InsertRow(db.Node,
                          BrushNodeRow(node_uuid, brush, variant_id, init_variant_id))
        n2   == LinkPrevious(n1, node_uuid, prev)
    IN  [Node         |-> n2,
         Variant      |-> v2,
         MaterialFile |-> mf1,
         log          |-> log1 \o <<"Variant", "Variant", "Node">>]

\* mutant of InitVariantId: the second pre-increment left out
InitVariantIdSame(counter) == counter + 1

\* the two pre-increments of the loop body
CurrentVariantId(counter) == counter + 1
InitVariantId(counter) == counter + 2

-----------------------------------------------------------------------------
(* create_sut_file, statement by statement *)

PackageNames == {"Pack"}

\* a scratch file nothing was committed to
NoFile == [Manager |-> <<>>, Node |-> <<>>, Variant |-> <<>>, MaterialFile |-> <<>>,
           page_size |-> 0, tables |-> {}]

\* the settings map {}
NoSettings == {}

\* a builder that has done nothing: CSPDatabaseBuilder() and the first lines
\* of create_sut_file's locals
BuilderFresh ==
    /\ i = 1
    /\ root_uuid = NULL
    /\ variant_id_counter = NullInt
    /\ prev_node_uuid = NULL
    /\ first_brush_uuid = NULL
    /\ first_variant_id = NullInt
    /\ Manager = <<>>
    /\ Node = <<>>
    /\ Variant = <<>>
    /\ MaterialFile = <<>>
    /\ log = <<>>
    /\ sut_data = NoFile
    /\ returned = NoFile
    /\ conn = "none"
    /\ closes = 0
    /\ unlinks = 0
    /\ disk = NoFile
    /\ step_failed = FALSE
    /\ temp_pngs = 0

\* no response sent yet
NoResponse == [status |-> 0, body |-> NoFile, count |-> NullInt]

\* no request is being served
ConvertIdle ==
    /\ files = <<>>
    /\ fpos = 1
    /\ invoked = FALSE
    /\ response = NoResponse

\* the builds that run at the same time in the threaded server
Builds == {1, 2}

\* no seed was given
NoSeed == NullInt

\* no concurrent build is running
RandomIdle ==
    /\ rng = 0
    /\ rpc = [b \in Builds |-> "idle"]
    /\ seeded = [b \in Builds |-> NoSeed]
    /\ start = [b \in Builds |-> 0]
    /\ drawn = [b \in Builds |-> <<>>]

\* no file is being validated
ValidateIdle ==
    /\ candidate = NoFile
    /\ verdict = "none"

\* one build, called directly: the state after line 467, the temporary file
\* exists and nothing else happened
Init ==
    /\ pc = "connect"
    /\ brushes \in SeqsUpTo(BrushInputs, MaxBrushes)
    /\ settings = NoSettings
    /\ BuilderFresh
    /\ file_exists = TRUE
    /\ ConvertIdle
    /\ RandomIdle
    /\ ValidateIdle

\* self.conn = sqlite3.connect(db_path); self.cursor = self.conn.cursor()
Connect ==
    /\ pc = "connect"
    /\ conn' = "open"
    /\ pc' = "schema"
    /\ UNCHANGED <<brushes, settings, locals, tables, log, sut_data, returned, closes,
                   unlinks, file_exists, disk, step_failed,
                   convVars, randVars, valVars,
                   temp_pngs>>

\* PRAGMA page_size = 1024 and the four CREATE TABLE, run by executescript,
\* which commits
SchemaFile == [Manager |-> <<>>, Node |-> <<>>, Variant |-> <<>>,
               MaterialFile |-> <<>>, page_size |-> 1024,
               tables |-> {"Manager", "Node", "Variant", "MaterialFile"}]

\* self._create_schema()
CreateSchema ==
    /\ pc = "schema"
    /\ disk' = SchemaFile
    /\ pc' = "manager"
    /\ UNCHANGED <<brushes, settings, locals, tables, log, sut_data, returned, conn, closes,
                   unlinks, file_exists, step_failed,
                   convVars, randVars, valVars,
                   temp_pngs>>

\* root_uuid = self._generate_uuid(); self._insert_manager(root_uuid)
InsertManagerStep ==
    /\ pc = "manager"
    /\ \E u \in NodeUuids :
        /\ root_uuid' = u
        /\ Manager' = InsertManager(Manager, u, NULL, NullInt)
    /\ log' = Append(log, "Manager")
    /\ pc' = "root"
    /\ UNCHANGED <<brushes, settings, i, variant_id_counter, prev_node_uuid,
                   first_brush_uuid, first_variant_id, Node, Variant,
                   MaterialFile, sut_data, returned, resources, step_failed,
                   convVars, randVars, valVars,
                   temp_pngs>>

\* self._insert_root_node(root_uuid, package_name) and the loop's locals
InsertRootNodeStep ==
    /\ pc = "root"
    /\ \E package_name \in PackageNames :
        Node' = InsertRootNode(Node, root_uuid, package_name)
    /\ log' = Append(log, "Node")
    /\ variant_id_counter' = 1000
    /\ prev_node_uuid' = NULL
    /\ first_brush_uuid' = NULL
    /\ first_variant_id' = NullInt
    /\ pc' = "loop"
    /\ UNCHANGED <<brushes, settings, i, root_uuid, Manager, Variant, MaterialFile, sut_data,
                   returned, resources, step_failed,
                   convVars, randVars, valVars,
                   temp_pngs>>

\* one iteration of: for i, brush in enumerate(brushes)
InsertBrushStep ==
    /\ pc = "loop"
    /\ i <= Len(brushes)
    /\ LET brush == brushes[i]
           current_variant_id == CurrentVariantId(variant_id_counter)
           init_variant_id == InitVariantId(variant_id_counter)
       IN  \E node_uuid \in NodeUuids :
           \E material \in (IF Truthy(brush.image_data) THEN MaterialUuids ELSE {None}) :
           \E outcome \in (IF Truthy(brush.image_data) THEN EncodeOutcomes ELSE {"ok"}) :
           \E raised_at \in (IF outcome = "raise" THEN RaisePoints ELSE {"none"}) :
             LET db == InsertBrush([Node |-> Node, Variant |-> Variant,
                                    MaterialFile |-> MaterialFile, log |-> log],
                                   brush, current_variant_id, init_variant_id,
                                   prev_node_uuid, node_uuid, material, outcome,
                                   settings)
             IN  /\ Node' = db.Node
                 /\ Variant' = db.Variant
                 /\ MaterialFile' = db.MaterialFile
                 /\ log' = db.log
                 /\ variant_id_counter' = init_variant_id
                 /\ first_brush_uuid' = IF i = 1 THEN node_uuid ELSE first_brush_uuid
                 /\ first_variant_id' = IF i = 1 THEN current_variant_id
                                        ELSE first_variant_id
                 /\ prev_node_uuid' = node_uuid
                 /\ step_failed' = (step_failed \/ outcome # "ok")
                 /\ temp_pngs' = temp_pngs + TempPngLeft(brush, outcome, raised_at)
    /\ i' = i + 1
    /\ UNCHANGED <<pc, brushes, settings, root_uuid, Manager, sut_data, returned, resources,
                   convVars, randVars, valVars>>

\* mutant of LinkRoot: the UPDATE's two parameters in the wrong order
LinkRootSwapped(table, first, root) ==
    IF TruthyBlob(first) THEN UpdateNodeFirstChild(table, root, first) ELSE table

\* "Update root node to point to first brush"
LinkRoot(table, first, root) ==
    IF TruthyBlob(first) THEN UpdateNodeFirstChild(table, first, root) ELSE table

LinkRootStep ==
    /\ pc = "loop"
    /\ i > Len(brushes)
    /\ Node' = LinkRoot(Node, first_brush_uuid, root_uuid)
    /\ pc' = "finalize"
    /\ UNCHANGED <<brushes, settings, locals, Manager, Variant, MaterialFile, log, sut_data,
                   returned, resources, step_failed,
                   convVars, randVars, valVars,
                   temp_pngs>>

\* mutant of FinalizeManager: MaxVariantID written back as it was inserted
FinalizeManagerStaleMax(table, counter, first, first_variant) ==
    UpdateManager(table, table[1].MaxVariantID,
                  IF TruthyBlob(first) THEN first ELSE ZeroByte,
                  IF TruthyInt(first_variant) THEN first_variant ELSE 44)

\* mutant of FinalizeManager: 16 zero bytes as the fallback CurrentNodeUuid
FinalizeManagerZero16(table, counter, first, first_variant) ==
    UpdateManager(table, counter,
                  IF TruthyBlob(first) THEN first ELSE ZeroUuid,
                  IF TruthyInt(first_variant) THEN first_variant ELSE 44)

\* "Update Manager with correct values"
FinalizeManager(table, counter, first, first_variant) ==
    UpdateManager(table, counter,
                  IF TruthyBlob(first) THEN first ELSE ZeroByte,
                  IF TruthyInt(first_variant) THEN first_variant ELSE 44)

FinalizeManagerStep ==
    /\ pc = "finalize"
    /\ Manager' = FinalizeManager(Manager, variant_id_counter, first_brush_uuid,
                                  first_variant_id)
    /\ pc' = "commit"
    /\ UNCHANGED <<brushes, settings, locals, Node, Variant, MaterialFile, log, sut_data,
                   returned, resources, step_failed,
                   convVars, randVars, valVars,
                   temp_pngs>>

\* mutant of CommitRows: the transaction is never written to the file
CommitRowsLost(file, manager, node, variant, material) == file

\* self.conn.commit(): the rows of the open transaction reach the file
CommitRows(file, manager, node, variant, material) ==
    [file EXCEPT !.Manager = manager, !.Node = node, !.Variant = variant,
                 !.MaterialFile = material]

Commit ==
    /\ pc = "commit"
    /\ disk' = CommitRows(disk, Manager, Node, Variant, MaterialFile)
    /\ pc' = "close"
    /\ UNCHANGED <<brushes, settings, locals, tables, log, sut_data, returned, conn, closes,
                   unlinks, file_exists, step_failed,
                   convVars, randVars, valVars,
                   temp_pngs>>

\* self.conn.close()
Close ==
    /\ pc = "close"
    /\ conn' = "closed"
    /\ closes' = closes + 1
    /\ pc' = "read"
    /\ UNCHANGED <<brushes, settings, locals, tables, log, sut_data, returned, unlinks,
                   file_exists, disk, step_failed,
                   convVars, randVars, valVars,
                   temp_pngs>>

\* with open(db_path, 'rb') as f: sut_data = f.read()
ReadFile ==
    /\ pc = "read"
    /\ sut_data' = disk
    /\ pc' = "unlink"
    /\ UNCHANGED <<brushes, settings, locals, tables, log, returned, resources, step_failed,
                   convVars, randVars, valVars,
                   temp_pngs>>

\* os.unlink(db_path); return sut_data
UnlinkAndReturn ==
    /\ pc = "unlink"
    /\ file_exists' = FALSE
    /\ unlinks' = unlinks + 1
    /\ disk' = NoFile
    /\ returned' = sut_data
    /\ pc' = "done"
    /\ UNCHANGED <<brushes, settings, locals, tables, log, sut_data, conn, closes,
                   step_failed,
                   convVars, randVars, valVars,
                   temp_pngs>>

\* the statements of the try block, by the position that runs them
TrySteps == {"connect", "schema", "manager", "root", "loop", "finalize", "commit",
             "close", "read", "unlink"}

\* the statement at pc raises an Exception, and the except clause runs:
\*   if self.conn: self.conn.close()
\*   if os.path.exists(db_path): os.unlink(db_path)
\*   raise e
\* A close() or unlink() that raised was called all the same.  In the except
\* clause close() can raise again only on a connection that is not closed,
\* and then the unlink is not reached; the unlink can raise too.
Raise ==
    /\ pc \in TrySteps
    /\ \E handler_close \in {"ok", "raise"}, handler_unlink \in {"ok", "raise"} :
        LET closes1  == IF pc = "close" THEN closes + 1 ELSE closes
            unlinks1 == IF pc = "unlink" THEN unlinks + 1 ELSE unlinks
            calls_close  == conn # "none"
            close_raises == calls_close /\ conn # "closed" /\ handler_close = "raise"
            calls_unlink == ~close_raises /\ file_exists
            unlink_raises == calls_unlink /\ handler_unlink = "raise"
        IN  /\ closes' = IF calls_close THEN closes1 + 1 ELSE closes1
            /\ conn' = IF calls_close /\ ~close_raises THEN "closed" ELSE conn
            /\ unlinks' = IF calls_unlink THEN unlinks1 + 1 ELSE unlinks1
            /\ file_exists' = IF calls_unlink /\ ~unlink_raises THEN FALSE
                              ELSE file_exists
            /\ disk' = IF calls_unlink /\ ~unlink_raises THEN NoFile ELSE disk
    \* the exception leaves create_sut_file: its locals are gone, and so is
    \* the transaction that was open
    /\ i' = 1
    /\ root_uuid' = NULL
    /\ variant_id_counter' = NullInt
    /\ prev_node_uuid' = NULL
    /\ first_brush_uuid' = NULL
    /\ first_variant_id' = NullInt
    /\ Manager' = <<>>
    /\ Node' = <<>>
    /\ Variant' = <<>>
    /\ MaterialFile' = <<>>
    /\ sut_data' = NoFile
    /\ step_failed' = TRUE
    /\ pc' = "raised"
    /\ UNCHANGED <<brushes, settings, log, returned,
                   convVars, randVars, valVars,
                   temp_pngs>>

Next ==
    \/ Connect
    \/ CreateSchema
    \/ InsertManagerStep
    \/ InsertRootNodeStep
    \/ InsertBrushStep
    \/ LinkRootStep
    \/ FinalizeManagerStep
    \/ Commit
    \/ Close
    \/ ReadFile
    \/ UnlinkAndReturn
    \/ Raise

Spec == Init /\ [][Next]_vars

-----------------------------------------------------------------------------
(* Reading an emitted file *)

Emitted == pc = "done"

Range(seq) == {seq[k] : k \in 1..Len(seq)}

\* SELECT ... WHERE _PW_ID = k (rows in rowid order)
RowsByPwId(table, k) == SelectSeq(table, LAMBDA r : r.PW_ID = k)

\* SELECT ... FROM Node WHERE _PW_ID > 1
BrushNodes(F) == SelectSeq(F.Node, LAMBDA r : r.PW_ID > 1)

\* SELECT ... FROM Variant WHERE VariantID = v
VariantsById(F, v) == SelectSeq(F.Variant, LAMBDA r : r.VariantID = v)

VariantIds(F) == {r.VariantID : r \in Range(F.Variant)}

RootNode(F) == RowsByPwId(F.Node, 1)[1]

\* the PW_IDs met by following NodeNextUuid from uuid, at most fuel rows;
\* a UUID held by several rows resolves to the first of them
RECURSIVE Walk(_, _, _)
Walk(F, uuid, fuel) ==
    LET hits == SelectSeq(F.Node, LAMBDA r : r.NodeUuid = uuid)
    IN  IF fuel = 0 \/ hits = <<>> THEN <<>>
        ELSE <<hits[1].PW_ID>> \o Walk(F, hits[1].NodeNextUuid, fuel - 1)

DistinctNodeUuids(F) ==
    \A a, b \in 1..Len(F.Node) : a # b => F.Node[a].NodeUuid # F.Node[b].NodeUuid

-----------------------------------------------------------------------------
(* Claims *)

\* C1: after create_sut_file, for any brush list, the Manager table holds
\* exactly one row, with _PW_ID 1, ToolType 0, Version 126, whose RootUuid
\* and ObjectNodeUuid equal the NodeUuid of the Node row with _PW_ID 1.
C1_ManagerSingleton ==
    Emitted =>
        /\ Len(sut_data.Manager) = 1
        /\ Len(RowsByPwId(sut_data.Node, 1)) = 1
        /\ LET m == sut_data.Manager[1]
           IN  /\ m.PW_ID = 1
               /\ m.ToolType = 0
               /\ m.Version = 126
               /\ m.RootUuid = RootNode(sut_data).NodeUuid
               /\ m.ObjectNodeUuid = RootNode(sut_data).NodeUuid

C1_Witness ==
    /\ Emitted
    /\ Len(brushes) = MaxBrushes
    /\ sut_data.Manager[1].RootUuid = RootNode(sut_data).NodeUuid

\* C2: in every emitted file the root Node's NodeFirstChildUuid is the
\* NodeUuid of the first brush in input order, and it is NULL exactly when
\* the brush list is empty.
C2_RootFirstChild ==
    Emitted =>
        LET root == RootNode(sut_data)
        IN  /\ brushes # <<>> =>
                /\ root.NodeFirstChildUuid = first_brush_uuid
                /\ root.NodeFirstChildUuid = RowsByPwId(sut_data.Node, 2)[1].NodeUuid
            /\ root.NodeFirstChildUuid = NULL <=> brushes = <<>>

C2_Witness ==
    /\ Emitted
    /\ brushes # <<>>
    /\ RootNode(sut_data).NodeFirstChildUuid = BrushNodes(sut_data)[1].NodeUuid
    /\ RootNode(sut_data).NodeUuid # BrushNodes(sut_data)[1].NodeUuid

\* C3 (as claimed): with n >= 1 brushes every non-terminal brush node i has
\* NodeNextUuid equal to the NodeUuid of brush i+1, and the last brush node
\* has NodeNextUuid equal to 16 zero bytes.
C3_ChainZeroTerminated ==
    Emitted /\ Len(brushes) >= 1 =>
        LET b == BrushNodes(sut_data)
        IN  /\ \A k \in 1..(Len(b) - 1) : b[k].NodeNextUuid = b[k + 1].NodeUuid
            /\ b[Len(b)].NodeNextUuid = ZeroUuid

\* C4 (as claimed): with 2 or more brushes, following NodeNextUuid from the
\* root's NodeFirstChildUuid visits every brush node exactly once, in input
\* order, and nothing else.
C4_WalkVisitsAll ==
    Emitted /\ Len(brushes) >= 2 =>
        Walk(sut_data, RootNode(sut_data).NodeFirstChildUuid, Len(sut_data.Node) + 1)
            = [k \in 1..Len(brushes) |-> k + 1]

\* C4 (amended): the same, for builds whose node UUIDs (root and brushes)
\* came out pairwise distinct.
C4_WalkVisitsAllDistinct ==
    Emitted /\ Len(brushes) >= 2 /\ DistinctNodeUuids(sut_data) =>
        Walk(sut_data, RootNode(sut_data).NodeFirstChildUuid, Len(sut_data.Node) + 1)
            = [k \in 1..Len(brushes) |-> k + 1]

C4_Witness ==
    /\ Emitted
    /\ Len(brushes) >= 2
    /\ DistinctNodeUuids(sut_data)
    /\ Len(Walk(sut_data, RootNode(sut_data).NodeFirstChildUuid,
                Len(sut_data.Node) + 1)) = Len(brushes)

\* C5: each brush node's NodeVariantID and NodeInitVariantID are two distinct
\* values, each the VariantID of an existing Variant row, and no Variant row
\* is referenced by two different brush nodes.
C5_VariantRefs ==
    Emitted =>
        LET b == BrushNodes(sut_data)
        IN  /\ \A k \in 1..Len(b) :
                /\ b[k].NodeVariantID # b[k].NodeInitVariantID
                /\ b[k].NodeVariantID \in VariantIds(sut_data)
                /\ b[k].NodeInitVariantID \in VariantIds(sut_data)
            /\ \A j, k \in 1..Len(b) :
                j # k => {b[j].NodeVariantID, b[j].NodeInitVariantID}
                         \cap {b[k].NodeVariantID, b[k].NodeInitVariantID} = {}

C5_Witness ==
    /\ Emitted
    /\ Len(BrushNodes(sut_data)) = MaxBrushes
    /\ Cardinality(VariantIds(sut_data)) = 2 * MaxBrushes

\* C6: the k-th brush gets current VariantID 1000+2k-1 and initial VariantID
\* 1000+2k, and after the build Manager.MaxVariantID is 1000+2n, which is at
\* least every Variant.VariantID.
C6_VariantAllocator ==
    Emitted =>
        LET b == BrushNodes(sut_data)
            n == Len(brushes)
        IN  /\ Len(b) = n
            /\ \A k \in 1..n :
                /\ b[k].PW_ID = k + 1
                /\ b[k].NodeVariantID = 1000 + 2 * k - 1
                /\ b[k].NodeInitVariantID = 1000 + 2 * k
                /\ Len(VariantsById(sut_data, 1000 + 2 * k - 1)) = 1
                /\ Len(VariantsById(sut_data, 1000 + 2 * k)) = 1
            /\ sut_data.Manager[1].MaxVariantID = 1000 + 2 * n
            /\ \A v \in VariantIds(sut_data) : sut_data.Manager[1].MaxVariantID >= v

C6_Witness ==
    /\ Emitted
    /\ Len(brushes) = MaxBrushes
    /\ sut_data.Manager[1].MaxVariantID = 1000 + 2 * MaxBrushes
    /\ 1000 + 2 * MaxBrushes \in VariantIds(sut_data)

C8_CommonVariant ==
    Emitted =>
        /\ sut_data.Manager[1].CommonVariantID = 1001
        /\ brushes # <<>> =>
            sut_data.Manager[1].CommonVariantID = BrushNodes(sut_data)[1].NodeVariantID

\* the material UUID strings a BrushPatternImageArray refers to
MaterialRefs(blob) == IF blob.ref = <<>> THEN {} ELSE {blob.ref[2]}

\* the MaterialFile rows whose OriginalPath contains the string uuid
MaterialFilesOf(F, uuid) ==
    SelectSeq(F.MaterialFile, LAMBDA r : \E k \in 1..Len(r.OriginalPath) :
                                            r.OriginalPath[k] = uuid)

\* C9 (as claimed): for every brush with image data there is exactly one
\* MaterialFile row whose OriginalPath contains the material UUID that both
\* of the brush's Variant rows reference; no Variant with
\* BrushUsePatternImage = 1 references a material UUID without a row.
C9_MaterialFilePresent ==
    Emitted =>
        /\ \A k \in 1..Len(brushes) :
            Truthy(brushes[k].image_data) =>
                LET node == BrushNodes(sut_data)[k]
                    cur  == VariantsById(sut_data, node.NodeVariantID)[1]
                    ini  == VariantsById(sut_data, node.NodeInitVariantID)[1]
                IN  /\ MaterialRefs(cur.BrushPatternImageArray)
                        = MaterialRefs(ini.BrushPatternImageArray)
                    /\ \A u \in MaterialRefs(cur.BrushPatternImageArray) :
                        Len(MaterialFilesOf(sut_data, u)) = 1
        /\ \A v \in Range(sut_data.Variant) :
            v.BrushUsePatternImage = 1 =>
                \A u \in MaterialRefs(v.BrushPatternImageArray) :
                    Len(MaterialFilesOf(sut_data, u)) >= 1

\* the INSERTs into Manager, Node and Variant, in the order issued
CoreLog == SelectSeq(log, LAMBDA t : t # "MaterialFile")

RECURSIVE ExpectedLog(_)
ExpectedLog(n) ==
    IF n = 0 THEN <<"Manager", "Node">>
    ELSE ExpectedLog(n - 1) \o <<"Variant", "Variant", "Node">>

IsPrefix(s, t) == Len(s) <= Len(t) /\ \A k \in 1..Len(s) : s[k] = t[k]

\* C10: rows are inserted in a fixed order: Manager row and root Node first,
\* then per brush in input order its current Variant, its initial Variant
\* and its Node; so the root Node has _PW_ID 1, the i-th brush Node has
\* _PW_ID i+1 and the i-th brush's Variants have _PW_ID 2i-1 and 2i.
C10_InsertionOrder ==
    /\ IsPrefix(CoreLog, ExpectedLog(Len(brushes)))
    /\ Emitted =>
        /\ CoreLog = ExpectedLog(Len(brushes))
        /\ RootNode(sut_data).NodeUuid = root_uuid
        /\ \A k \in 1..Len(brushes) :
            LET node == RowsByPwId(sut_data.Node, k + 1)
                cur  == RowsByPwId(sut_data.Variant, 2 * k - 1)
                ini  == RowsByPwId(sut_data.Variant, 2 * k)
            IN  /\ Len(node) = 1 /\ Len(cur) = 1 /\ Len(ini) = 1
                /\ node[1].NodeName = brushes[k].name
                /\ cur[1].VariantID = node[1].NodeVariantID
                /\ ini[1].VariantID = node[1].NodeInitVariantID
                /\ cur[1].BrushUsePatternImage
                     = (IF Truthy(brushes[k].image_data) THEN 1 ELSE 0)

C10_Witness ==
    /\ Emitted
    /\ Len(brushes) = MaxBrushes
    /\ brushes[1].name # brushes[2].name
    /\ CoreLog = ExpectedLog(MaxBrushes)
    /\ Len(log) > Len(CoreLog)

\* create_sut_file has left, by return or by exception
Exited == pc \in {"done", "raised"}

\* C11: on every exit path of a build, the normal return and an exception
\* raised at any step from connect to unlink, the scratch file no longer
\* exists, the connection that was opened has been closed by exactly one
\* close(), and the file has been unlinked by exactly one unlink().
C11_ScratchReleased ==
    Exited =>
        /\ ~file_exists
        /\ conn # "none" => (conn = "closed" /\ closes = 1)
        /\ unlinks = 1

\* the rows a build has written, as the file that holds them
WrittenFile == [Manager |-> Manager, Node |-> Node, Variant |-> Variant,
                MaterialFile |-> MaterialFile, page_size |-> 1024,
                tables |-> {"Manager", "Node", "Variant", "MaterialFile"}]

\* C12: a build is all-or-nothing: bytes are returned only after every row
\* written was committed and the connection closed, and when any step of
\* the build failed no bytes are returned.
C12_AllOrNothing ==
    /\ returned # NoFile =>
        /\ conn = "closed"
        /\ returned = WrittenFile
    /\ step_failed => returned = NoFile

\* C17: for a brush list of length n the emitted file has exactly 1 Manager
\* row, n+1 Node rows and 2n Variant rows; for the empty list that is 1 Node
\* row, no Variant row, no MaterialFile row and Manager.MaxVariantID = 1000.
C17_RowCounts ==
    returned # NoFile =>
        /\ Len(returned.Manager) = 1
        /\ Len(returned.Node) = Len(brushes) + 1
        /\ Len(returned.Variant) = 2 * Len(brushes)
        /\ brushes = <<>> =>
            /\ Len(returned.MaterialFile) = 0
            /\ returned.Manager[1].MaxVariantID = 1000

C17_Witness ==
    /\ pc = "done"
    /\ Len(brushes) = MaxBrushes
    /\ Len(returned.Node) = MaxBrushes + 1
    /\ Len(returned.Variant) = 2 * MaxBrushes

\* SELECT MAX(VariantID) FROM Variant: NULL on an empty table
MaxVariantIdOf(F) ==
    IF VariantIds(F) = {} THEN NullInt
    ELSE CHOOSE v \in VariantIds(F) : \A w \in VariantIds(F) : w <= v

\* required_tables
RequiredTables == {"Manager", "Node", "Variant", "MaterialFile"}

\* SELECT NodeVariantID FROM Node WHERE NodeVariantID IS NOT NULL
NodeVariantIds(F) ==
    {r.NodeVariantID : r \in {q \in Range(F.Node) : q.NodeVariantID # NullInt}}

\* validate_sut_file on the bytes F, top to bottom: each "return False" is a
\* FALSE branch, and so is the TypeError of comparing an int with None,
\* which the "except Exception" at the end turns into return False.  The
\* checks that only print a warning decide nothing.
ValidateSutFile(F) ==
    LET manager   == F.Manager
        root_node == RowsByPwId(F.Node, 1)
    IN  IF F.page_size # 1024 THEN FALSE
        ELSE IF ~(RequiredTables \subseteq F.tables) THEN FALSE
        ELSE IF manager = <<>> THEN FALSE
        ELSE IF root_node = <<>> THEN FALSE
        \* 0 <= variant[1] <= 100 and 0 <= variant[6] <= 100 in the printing
        ELSE IF \E v \in Range(F.Variant) :
                    v.Opacity = NullInt \/ v.BrushHardness = NullInt THEN FALSE
        ELSE IF manager[1].RootUuid # root_node[1].NodeUuid THEN FALSE
        ELSE IF ~(NodeVariantIds(F) \subseteq VariantIds(F)) THEN FALSE
        \* max_variant_id >= actual_max
        ELSE IF manager[1].MaxVariantID = NullInt \/ MaxVariantIdOf(F) = NullInt
             THEN FALSE
        ELSE TRUE

\* C18: every file create_sut_file emits, for any brush list including the
\* empty list, passes the validator: validate_sut_file returns True on it.
C18_ValidatorAccepts ==
    returned # NoFile => ValidateSutFile(returned)

-----------------------------------------------------------------------------
(* The bytes of a BrushPatternImageArray *)

\* struct.pack('>I', n) and struct.pack('<I', n)
Pack32(order, n) ==
    LET b3 == (n \div 16777216) % 256
        b2 == (n \div 65536) % 256
        b1 == (n \div 256) % 256
        b0 == n % 256
    IN  IF order = "big" THEN <<b3, b2, b1, b0>> ELSE <<b0, b1, b2, b3>>

\* struct.unpack of one u32 from four bytes
Unpack32(order, b) ==
    IF order = "big"
    THEN ((b[1] * 256 + b[2]) * 256 + b[3]) * 256 + b[4]
    ELSE ((b[4] * 256 + b[3]) * 256 + b[2]) * 256 + b[1]

\* the characters of the strings the encoder formats
CharsOf(s) ==
    CASE s = "A" -> <<"A">>
      [] s = "B" -> <<"B">>
      [] s = "A_" -> <<"A", "_">>
      [] s = "m1" -> <<"m", "1">>
      [] s = "m2" -> <<"m", "2">>
      [] s = ".:12:45:" -> <<".", ":", "1", "2", ":", "4", "5", ":">>
      [] s = ":data:material_0.layer" ->
            <<":", "d", "a", "t", "a", ":", "m", "a", "t", "e", "r", "i", "a",
              "l", "_", "0", ".", "l", "a", "y", "e", "r">>

\* ord(c)
Ord(c) ==
    CASE c = "A" -> 65   [] c = "B" -> 66   [] c = "." -> 46  [] c = ":" -> 58
      [] c = "0" -> 48   [] c = "1" -> 49   [] c = "2" -> 50  [] c = "4" -> 52
      [] c = "5" -> 53   [] c = "_" -> 95   [] c = "a" -> 97  [] c = "d" -> 100
      [] c = "e" -> 101  [] c = "i" -> 105  [] c = "l" -> 108 [] c = "m" -> 109
      [] c = "r" -> 114  [] c = "t" -> 116  [] c = "y" -> 121

RECURSIVE Utf16Units(_)
Utf16Units(chars) ==
    IF chars = <<>> THEN <<>>
    ELSE <<Ord(Head(chars)), 0>> \o Utf16Units(Tail(chars))

RECURSIVE Utf16Pieces(_)
Utf16Pieces(pieces) ==
    IF pieces = <<>> THEN <<>>
    ELSE Utf16Units(CharsOf(Head(pieces))) \o Utf16Pieces(Tail(pieces))

\* s.encode('utf-16le') + b'\x00\x00' for a string given as its pieces
Utf16le(pieces) == Utf16Pieces(pieces) \o <<0, 0>>

\* the bytes of the image data b'PNG'
PngBytes(png_data) == IF png_data = "PNG" THEN <<80, 78, 71>> ELSE <<>>

RECURSIVE PackWords(_, _)
PackWords(order, words) ==
    IF words = <<>> THEN <<>>
    ELSE Pack32(order, Head(words)) \o PackWords(order, Tail(words))

RECURSIVE PngPieces(_)
PngPieces(pieces) ==
    IF pieces = <<>> THEN <<>>
    ELSE PngBytes(Head(pieces)) \o PngPieces(Tail(pieces))

\* the value _encode_brush_pattern_array returns, as bytes:
\* struct.pack('>IIII', 8, 1, 0, 0), or header + utf16_ref + type_flags +
\* name_data + png_data
BlobBytes(b) ==
    IF b.ref = <<>> THEN PackWords(b.order, b.header)
    ELSE PackWords(b.order, b.header) \o Utf16le(b.ref)
         \o PackWords(b.order, b.type_flags) \o Utf16le(b.name) \o PngPieces(b.png)

-----------------------------------------------------------------------------
(* Claims on the BrushPatternImageArray *)

\* the input brush a Variant row was written for: rows 2k-1 and 2k belong
\* to the k-th brush
BrushOfVariant(v) == brushes[(v.PW_ID + 1) \div 2]

LittleEndianWords(words) == PackWords("little", words)

\* C19: the BrushPatternImageArray of a brush without image is exactly the
\* 16 bytes u32(8), u32(1), u32(0), u32(0x84), every u32 little-endian; for
\* a brush with image the header words 8, 1, data_length, 0x84 and the
\* type/flag words 2, 0x14 are all written little-endian.
C19_LittleEndian ==
    returned # NoFile =>
        \A v \in Range(returned.Variant) :
            LET b     == v.BrushPatternImageArray
                bytes == BlobBytes(b)
                flags == 16 + Len(Utf16le(b.ref))
            IN  IF v.BrushUsePatternImage = 0
                THEN bytes = LittleEndianWords(<<8, 1, 0, 132>>)
                ELSE /\ SubSeq(bytes, 1, 16)
                          = LittleEndianWords(<<8, 1, Len(bytes) - 16, 132>>)
                     /\ SubSeq(bytes, flags + 1, flags + 8)
                          = LittleEndianWords(<<2, 20>>)

\* the five sections of the blob of an image brush, cut from its bytes at the
\* lengths of the reference string and of the name the row was written for
SectionsOf(bytes, ref_len, name_len) ==
    [header     |-> SubSeq(bytes, 1, 16),
     ref        |-> SubSeq(bytes, 17, 16 + ref_len),
     type_flags |-> SubSeq(bytes, 17 + ref_len, 24 + ref_len),
     name       |-> SubSeq(bytes, 25 + ref_len, 24 + ref_len + name_len),
     png        |-> SubSeq(bytes, 25 + ref_len + name_len, Len(bytes))]

\* C20: for a brush with image the BrushPatternImageArray is header, material
\* reference string, type/flags, brush name, PNG in that order; the header's
\* data_length field is the blob length minus 16; the blob ends with the
\* brush's PNG bytes unmodified.
C20_SectionOrder ==
    returned # NoFile =>
        \A v \in Range(returned.Variant) :
            v.BrushUsePatternImage = 1 =>
                LET b     == v.BrushPatternImageArray
                    bytes == BlobBytes(b)
                    brush == BrushOfVariant(v)
                    name  == Utf16le(<<brush.name>>)
                IN  \E u \in MaterialUuids :
                    LET ref == Utf16le(<<".:12:45:", u, ":data:material_0.layer">>)
                        s   == SectionsOf(bytes, Len(ref), Len(name))
                    IN  /\ Len(bytes) >= 16
                        /\ Unpack32(b.order, SubSeq(s.header, 1, 4)) = 8
                        /\ Unpack32(b.order, SubSeq(s.header, 5, 8)) = 1
                        /\ Unpack32(b.order, SubSeq(s.header, 9, 12)) = Len(bytes) - 16
                        /\ Unpack32(b.order, SubSeq(s.header, 13, 16)) = 132
                        /\ s.ref = ref
                        /\ Unpack32(b.order, SubSeq(s.type_flags, 1, 4)) = 2
                        /\ Unpack32(b.order, SubSeq(s.type_flags, 5, 8)) = 20
                        /\ s.name = name
                        /\ s.png = PngBytes(brush.image_data)
                        /\ s.png # <<>>

C20_Witness ==
    /\ pc = "done"
    /\ \E v \in Range(returned.Variant) :
        /\ v.BrushUsePatternImage = 1
        /\ Len(BlobBytes(v.BrushPatternImageArray)) > 16
        /\ BrushOfVariant(v).image_data = "PNG"

-----------------------------------------------------------------------------
(* The convert endpoint: POST /api/python/convert *)

AllowedExtensions == {"png", "jpg", "jpeg", "abr", "zip", "brushset"}

\* allowed_file(filename), the filename given as rsplit('.', 1) reads it
AllowedFile(file) == file.ext \in AllowedExtensions

\* sanitize_filename(name): each of <>:"/\|?* becomes "_"
SanitizeFilename(name) == IF name = "A:" THEN "A_" ELSE name

\* process_image returned None
NoBrush == [name |-> "None", image_data |-> None]

\* mutant of ProcessImage: an image that fails to normalize still gives a
\* brush, one without image data
ProcessImageKeepsFailed(file) ==
    [name |-> SanitizeFilename(file.base),
     image_data |-> IF file.content = "image" THEN "PNG" ELSE None]

\* CSPImageProcessor.process_image(file, filename): the brush, or None when
\* anything in opening, resizing or encoding the image raised
ProcessImage(file) ==
    IF file.content = "image"
    THEN [name |-> SanitizeFilename(file.base), image_data |-> "PNG"]
    ELSE NoBrush

\* the placeholder brushes made for one ABR file
AbrBrushCount == 5

\* f"{abr_base_name}_{i+1}"
AbrName(base, k) ==
    CASE k = 1 -> "A_1" [] k = 2 -> "A_2" [] k = 3 -> "A_3" [] k = 4 -> "A_4"
      [] OTHER -> "A_5"

AbrBrushes(file) ==
    [k \in 1..AbrBrushCount |-> [name |-> AbrName(file.base, k), image_data |-> None]]

\* process_archive / _process_zip_archive: one brush per member image that
\* can be processed, in archive order; a member that raises is skipped, and
\* an archive that cannot be read gives no brush
RECURSIVE ArchiveBrushes(_)
ArchiveBrushes(members) ==
    IF members = <<>> THEN <<>>
    ELSE LET m == Head(members)
         IN  (IF m.content = "image"
              THEN <<[name |-> SanitizeFilename(m.base), image_data |-> "PNG"]>>
              ELSE <<>>) \o ArchiveBrushes(Tail(members))

ProcessArchive(file) ==
    IF file.content = "archive" THEN ArchiveBrushes(file.members) ELSE <<>>

\* the body of the loop "for file in files": what one file adds to brushes
BrushesOfFile(file) ==
    IF ~AllowedFile(file) THEN <<>>
    ELSE IF file.ext \in {"png", "jpg", "jpeg"}
         THEN LET brush == ProcessImage(file)
              IN  IF brush # NoBrush THEN <<brush>> ELSE <<>>
    ELSE IF file.ext = "abr" THEN AbrBrushes(file)
    ELSE IF file.ext \in {"zip", "brushset"} THEN ProcessArchive(file)
    ELSE <<>>

Upload(base, ext, content, members) ==
    [base |-> base, ext |-> ext, content |-> content, members |-> members]

Member(base, content) == [base |-> base, content |-> content]

\* the uploads of the requests considered
Uploads ==
    {<<>>,
     <<Upload("A", "txt", "other", <<>>)>>,
     <<Upload("B", "png", "corrupt", <<>>)>>,
     <<Upload("A:", "png", "image", <<>>)>>,
     <<Upload("B", "jpg", "corrupt", <<>>), Upload("A", "png", "image", <<>>)>>,
     <<Upload("A", "png", "image", <<>>), Upload("B", "png", "corrupt", <<>>),
       Upload("B", "jpeg", "image", <<>>)>>,
     <<Upload("A", "abr", "other", <<>>)>>,
     <<Upload("A", "zip", "archive", <<Member("B", "corrupt"), Member("A", "image")>>)>>,
     <<Upload("A", "zip", "corrupt", <<>>)>>,
     <<Upload("A", "brushset", "archive", <<>>),
       Upload("B", "png", "image", <<>>)>>}

\* a request arrives
InitConvert ==
    /\ pc = "request"
    /\ files \in Uploads
    /\ fpos = 1
    /\ invoked = FALSE
    /\ response = NoResponse
    /\ brushes = <<>>
    /\ settings = NoSettings
    /\ BuilderFresh
    /\ file_exists = FALSE
    /\ RandomIdle
    /\ ValidateIdle

\* jsonify({'error': ...}), status
ErrorResponse(status) == [status |-> status, body |-> NoFile, count |-> NullInt]

\* the values of the form field 'settings'
SettingsJsons == {"{}", "{opacity: 150, zzz: 1}", "{hardness: -5, sizePressure: true}",
                  "{opacity: 30"}

\* json.loads(settings_json), and {} on a JSONDecodeError
JsonLoads(settings_json) ==
    CASE settings_json = "{}" -> {}
      [] settings_json = "{opacity: 150, zzz: 1}" -> {<<"opacity", 150>>, <<"zzz", 1>>}
      [] settings_json = "{hardness: -5, sizePressure: true}" ->
            {<<"hardness", -5>>, <<"sizePressure", 1>>}
      [] OTHER -> {}

\* files = request.files.getlist('files'); if not files: return ..., 400;
\* then the form's metadata is read and the settings are parsed
CheckFiles ==
    /\ pc = "request"
    /\ IF files = <<>>
       THEN /\ response' = ErrorResponse(400)
            /\ pc' = "responded"
            /\ settings' = settings
       ELSE /\ response' = response
            /\ pc' = "files"
            /\ \E settings_json \in SettingsJsons :
                settings' = JsonLoads(settings_json)
    /\ UNCHANGED <<brushes, locals, tables, log, sut_data, returned, resources,
                   step_failed, files, fpos, invoked, randVars, valVars,
                   temp_pngs>>

\* one iteration of "for file in files"
ProcessFile ==
    /\ pc = "files"
    /\ fpos <= Len(files)
    /\ brushes' = brushes \o BrushesOfFile(files[fpos])
    /\ fpos' = fpos + 1
    /\ UNCHANGED <<pc, settings, locals, tables, log, sut_data, returned,
                   resources, step_failed, files, invoked, response, randVars, valVars,
                   temp_pngs>>

\* if not brushes: return ..., 400; otherwise builder = CSPDatabaseBuilder()
\* and create_sut_file is entered: its temporary file is created
CheckBrushes ==
    /\ pc = "files"
    /\ fpos > Len(files)
    /\ IF brushes = <<>>
       THEN /\ response' = ErrorResponse(400)
            /\ pc' = "responded"
            /\ UNCHANGED <<invoked, file_exists>>
       ELSE /\ invoked' = TRUE
            /\ file_exists' = TRUE
            /\ pc' = "connect"
            /\ response' = response
    /\ UNCHANGED <<brushes, settings, locals, tables, log, sut_data, returned, conn, closes,
                   unlinks, disk, step_failed, files, fpos, randVars, valVars,
                   temp_pngs>>

\* mutant of ConvertResponse: the header counts the rows of Node
ConvertResponseNodeRows(sut, brush_list) ==
    [status |-> 200, body |-> sut, count |-> Len(sut.Node)]

\* send_file(io.BytesIO(sut_data), ...) and
\* response.headers['X-Brush-Count'] = str(len(brushes))
ConvertResponse(sut, brush_list) ==
    [status |-> 200, body |-> sut, count |-> Len(brush_list)]

\* create_sut_file returned
RespondFile ==
    /\ pc = "done"
    /\ response' = ConvertResponse(returned, brushes)
    /\ pc' = "responded"
    /\ UNCHANGED <<brushes, settings, locals, tables, log, sut_data, returned, resources,
                   step_failed, files, fpos, invoked, randVars, valVars,
                   temp_pngs>>

\* except Exception as e: return jsonify({'error': str(e)}), 500
RespondError ==
    /\ pc = "raised"
    /\ response' = ErrorResponse(500)
    /\ pc' = "responded"
    /\ UNCHANGED <<brushes, settings, locals, tables, log, sut_data, returned, resources,
                   step_failed, files, fpos, invoked, randVars, valVars,
                   temp_pngs>>

NextConvert ==
    \/ CheckFiles
    \/ ProcessFile
    \/ CheckBrushes
    \/ Connect
    \/ CreateSchema
    \/ InsertManagerStep
    \/ InsertRootNodeStep
    \/ InsertBrushStep
    \/ LinkRootStep
    \/ FinalizeManagerStep
    \/ Commit
    \/ Close
    \/ ReadFile
    \/ UnlinkAndReturn
    \/ Raise
    \/ RespondFile
    \/ RespondError

SpecConvert == InitConvert /\ [][NextConvert]_vars

Responded == pc = "responded"

\* C15: convert answers 400 without calling the builder when no files are
\* uploaded or the files yield no brush; answers 500 with no .sut body when
\* the builder raises; otherwise returns the .sut bytes with X-Brush-Count
\* equal to the number of brushes passed to the builder, which is the number
\* of brush Node rows of the returned file.
C15_ConvertResponses ==
    /\ response.status = 400 => ~invoked /\ response.body = NoFile
    /\ Responded =>
        IF files = <<>> \/ brushes = <<>>
        THEN response = ErrorResponse(400) /\ ~invoked
        ELSE IF returned = NoFile
        THEN invoked /\ response.status = 500 /\ response.body = NoFile
        ELSE /\ invoked
             /\ response.status = 200
             /\ response.body = returned
             /\ response.count = Len(brushes)
             /\ response.count = Len(BrushNodes(response.body))

C15_Witness ==
    /\ Responded
    /\ response.status = 200
    /\ response.count = AbrBrushCount
    /\ Len(BrushNodes(response.body)) = AbrBrushCount

IsImageUpload(f) == f.ext \in {"png", "jpg", "jpeg"}

\* the uploads among fs that are images and normalize
GoodImages(fs) == SelectSeq(fs, LAMBDA f : IsImageUpload(f) /\ f.content = "image")

ImagesOnly == \A k \in 1..Len(files) : IsImageUpload(files[k])

\* C16: an image whose normalization fails is skipped without aborting the
\* request: the remaining images still become brushes, in upload order, and
\* the request is rejected with 400 only if no brush remains after all files
\* are processed.
C16_FailedImageSkipped ==
    /\ (pc = "files" /\ ImagesOnly) =>
        LET seen == GoodImages(SubSeq(files, 1, fpos - 1))
        IN  /\ Len(brushes) = Len(seen)
            /\ \A k \in 1..Len(seen) :
                /\ brushes[k].name = SanitizeFilename(seen[k].base)
                /\ brushes[k].image_data = "PNG"
    /\ (Responded /\ ImagesOnly /\ GoodImages(files) # <<>>) =>
        /\ invoked
        /\ response.status # 400
        /\ Len(brushes) = Len(GoodImages(files))
    /\ (response.status = 400 /\ files # <<>>) =>
        /\ fpos > Len(files)
        /\ brushes = <<>>

C16_Witness ==
    /\ Responded
    /\ response.status = 200
    /\ ImagesOnly
    /\ Len(GoodImages(files)) = 2
    /\ Len(files) = 3
    /\ response.count = 2

-----------------------------------------------------------------------------
(* Builds running at the same time: the generator of the `random` module *)

\* The module-level functions random.randint and random.choice step one
\* generator that belongs to the process.  It is modelled as a full-period
\* congruential generator with eight states; an output is a number 0..3.
NextRng(state) == (5 * state + 3) % 8

RandOut(state) == state \div 2

\* _generate_uuid(): bytes([random.randint(...) ...]), two bits here
NodeUuidOf(n) == <<n \div 2, n % 2>>

\* _generate_material_uuid(): random.choice(chars) joined
MaterialUuidOf(n) == IF n % 2 = 0 THEN "m1" ELSE "m2"

\* the seeds a caller gives with random.seed(s)
Seeds == {0, 5}

\* the UUIDs one build draws, in order: the root's, then per brush the
\* node's and, for a brush with image data, the material's
RECURSIVE BrushDraws(_)
BrushDraws(bs) ==
    IF bs = <<>> THEN <<>>
    ELSE (IF Truthy(Head(bs).image_data) THEN <<"node", "material">>
          ELSE <<"node">>) \o BrushDraws(Tail(bs))

DrawKinds(bs) == <<"node">> \o BrushDraws(bs)

\* two requests with the same brush list are being served; the generator
\* was seeded from the system's entropy when `random` was imported
InitRandom ==
    /\ pc = "concurrent"
    /\ brushes \in SeqsUpTo(BrushInputs, MaxBrushes)
    /\ settings = NoSettings
    /\ BuilderFresh
    /\ file_exists = FALSE
    /\ ConvertIdle
    /\ rng \in 0..7
    /\ rpc = [b \in Builds |-> "idle"]
    /\ seeded = [b \in Builds |-> NoSeed]
    /\ start = [b \in Builds |-> 0]
    /\ drawn = [b \in Builds |-> <<>>]
    /\ ValidateIdle

\* build b starts; create_sut_file takes no seed, so a caller that wants a
\* seeded build calls random.seed(s) on the process's generator first
StartBuild(b) ==
    /\ rpc[b] = "idle"
    /\ \E s \in Seeds \cup {NoSeed} :
        /\ rng' = IF s = NoSeed THEN rng ELSE s
        /\ seeded' = [seeded EXCEPT ![b] = s]
        /\ start' = [start EXCEPT ![b] = IF s = NoSeed THEN rng ELSE s]
    /\ rpc' = [rpc EXCEPT ![b] = "running"]
    /\ UNCHANGED <<buildVars, convVars, valVars, drawn>>

\* build b draws its next UUID
DrawUuid(b) ==
    /\ rpc[b] = "running"
    /\ Len(drawn[b]) < Len(DrawKinds(brushes))
    /\ rng' = NextRng(rng)
    /\ drawn' = [drawn EXCEPT ![b] = Append(@, RandOut(NextRng(rng)))]
    /\ UNCHANGED <<buildVars, convVars, valVars, rpc, seeded, start>>

\* build b has drawn every UUID it stores
FinishBuild(b) ==
    /\ rpc[b] = "running"
    /\ Len(drawn[b]) = Len(DrawKinds(brushes))
    /\ rpc' = [rpc EXCEPT ![b] = "done"]
    /\ UNCHANGED <<buildVars, convVars, valVars, rng, seeded, start, drawn>>

NextRandom ==
    \E b \in Builds :
        \/ StartBuild(b)
        \/ DrawUuid(b)
        \/ FinishBuild(b)

SpecRandom == InitRandom /\ [][NextRandom]_vars

\* the UUIDs build b stores, in the order drawn
UuidsDrawn(b) ==
    [k \in 1..Len(drawn[b]) |->
        IF DrawKinds(brushes)[k] = "node" THEN NodeUuidOf(drawn[b][k])
        ELSE <<MaterialUuidOf(drawn[b][k])>>]

\* the first n outputs of a generator that starts in state s and that
\* nothing else steps
RECURSIVE AloneDraws(_, _)
AloneDraws(s, n) ==
    IF n = 0 THEN <<>>
    ELSE <<RandOut(NextRng(s))>> \o AloneDraws(NextRng(s), n - 1)

\* C13: two builds given the same brush list, metadata and settings and
\* the same random seed produce the same output: the sequence of UUIDs
\* drawn is a function of the inputs and the seed only.
C13_SameSeedSameOutput ==
    (/\ \A b \in Builds : rpc[b] = "done"
     /\ seeded[1] # NoSeed
     /\ seeded[1] = seeded[2]) => UuidsDrawn(1) = UuidsDrawn(2)

\* C14: concurrent builds share no mutable state: under any interleaving of
\* two builds' steps the UUIDs one build draws are those it would draw if
\* it ran alone from the generator state it started with.
C14_OwnRandomStream ==
    \A b \in Builds : drawn[b] = AloneDraws(start[b], Len(drawn[b]))

-----------------------------------------------------------------------------
(* Claims on the Variant rows, the names and the settings *)

\* a Variant row without the two columns that tell the rows of a pair apart
VariantContent(v) == [v EXCEPT !.VariantID = 0, !.PW_ID = 0]

\* C21: the two Variant rows of a brush are identical in every column except
\* VariantID and _PW_ID; BrushUsePatternImage is 1 exactly when the brush has
\* image data, and then BrushPatternImageArray has the with-image shape.
C21_VariantPairs ==
    returned # NoFile =>
        \A k \in 1..Len(brushes) :
            LET cur  == RowsByPwId(returned.Variant, 2 * k - 1)[1]
                ini  == RowsByPwId(returned.Variant, 2 * k)[1]
                blob == cur.BrushPatternImageArray
            IN  /\ VariantContent(cur) = VariantContent(ini)
                /\ cur.VariantID # ini.VariantID
                /\ cur.BrushUsePatternImage
                     = (IF Truthy(brushes[k].image_data) THEN 1 ELSE 0)
                /\ IF Truthy(brushes[k].image_data)
                   THEN /\ blob.ref # <<>>
                        /\ blob.header[4] = 132
                        /\ Len(BlobBytes(blob)) > 16
                   ELSE Len(BlobBytes(blob)) = 16

C21_Witness ==
    /\ Responded
    /\ response.status = 200
    /\ settings # NoSettings
    /\ \E v \in Range(response.body.Variant) : v.BrushUsePatternImage = 1

\* C23: for every settings map passed to the builder, unknown keys ignored
\* and missing keys defaulted to opacity 100 and hardness 50, every Variant
\* row of the emitted file has Opacity, BrushFlow and BrushHardness within
\* [0, 100], with BrushFlow equal to Opacity.
C23_SettingsInRange ==
    returned # NoFile =>
        \A v \in Range(returned.Variant) :
            /\ 0 <= v.Opacity /\ v.Opacity <= 100
            /\ 0 <= v.BrushFlow /\ v.BrushFlow <= 100
            /\ 0 <= v.BrushHardness /\ v.BrushHardness <= 100
            /\ v.BrushFlow = v.Opacity

\* the VariantIDs a brush Node row names
NodeVariants(n) == {n.NodeVariantID, n.NodeInitVariantID}

\* the names of the build are stored as given: the root Node's NodeName is
\* the package name, the i-th brush Node's NodeName the i-th brush's name
NamesVerbatim(F) ==
    /\ RootNode(F).NodeName \in PackageNames
    /\ Len(BrushNodes(F)) = Len(brushes)
    /\ \A k \in 1..Len(brushes) :
        /\ BrushNodes(F)[k].PW_ID = k + 1
        /\ BrushNodes(F)[k].NodeName = brushes[k].name

\* C22 as stated: names are stored verbatim and not deduplicated, and
\* brushes with equal names yield separate Node rows with distinct NodeUuids
\* and distinct VariantIDs.
C22_NamesVerbatimDistinctUuids ==
    returned # NoFile =>
        /\ NamesVerbatim(returned)
        /\ \A j, k \in 1..Len(brushes) :
            (j # k /\ brushes[j].name = brushes[k].name) =>
                LET a == BrushNodes(returned)[j]
                    b == BrushNodes(returned)[k]
                IN  /\ a.PW_ID # b.PW_ID
                    /\ a.NodeUuid # b.NodeUuid
                    /\ NodeVariants(a) \cap NodeVariants(b) = {}

\* C22, amended: names are stored verbatim and not deduplicated; brushes
\* with equal names yield separate Node rows, with distinct _PW_IDs and
\* distinct VariantIDs, and with distinct NodeUuids when the UUIDs drawn in
\* the build are pairwise distinct.
C22_NamesVerbatim ==
    returned # NoFile =>
        /\ NamesVerbatim(returned)
        /\ \A j, k \in 1..Len(brushes) :
            (j # k /\ brushes[j].name = brushes[k].name) =>
                LET a == BrushNodes(returned)[j]
                    b == BrushNodes(returned)[k]
                IN  /\ a.PW_ID # b.PW_ID
                    /\ NodeVariants(a) \cap NodeVariants(b) = {}
                    /\ Cardinality(NodeVariants(a) \cup NodeVariants(b)) = 4
                    /\ DistinctNodeUuids(returned) => a.NodeUuid # b.NodeUuid

C22_Witness ==
    /\ pc = "done"
    /\ Len(brushes) = 2
    /\ brushes[1].name = "<A&>"
    /\ brushes[2].name = "<A&>"
    /\ BrushNodes(returned)[1].NodeName = "<A&>"
    /\ BrushNodes(returned)[2].NodeName = "<A&>"

-----------------------------------------------------------------------------
(* validate_sut_file on files of any origin *)

\* the files handed to the validator: one root node, one brush node and its
\* two Variant rows, written as create_sut_file writes them, with the page
\* size, the tables, the Manager row, RootUuid, the brush node's two variant
\* references and MaxVariantID each right or wrong
PageSizes == {1024, 4096}
TableSets == {RequiredTables, RequiredTables \ {"MaterialFile"}}
NodeVariantRefs == {1001, 1005, NullInt}
NodeInitVariantRefs == {1002, 1001, 1005}
MaxVariantIds == {1002, 1000}

CandidateFile(page_size, table_set, has_manager, root_matches, node_variant, init_variant, max_variant) ==
    LET root   == <<0, 1>>
        node   == <<1, 0>>
        brush  == [name |-> "B", image_data |-> None]
        m0     == InsertManager(<<>>, IF root_matches THEN root ELSE <<1, 1>>,
                                NULL, NullInt)
        n0     == InsertRow(InsertRootNode(<<>>, root, "Pack"),
                            BrushNodeRow(node, brush, node_variant, init_variant))
        v0     == InsertRow(InsertRow(<<>>, VariantRow(1001, brush, None, None,
                                                       NoSettings)),
                            VariantRow(1002, brush, None, None, NoSettings))
    IN  [Manager      |-> IF has_manager
                          THEN FinalizeManager(m0, max_variant, node, 1001)
                          ELSE <<>>,
         Node         |-> LinkRoot(n0, node, root),
         Variant      |-> v0,
         MaterialFile |-> <<>>,
         page_size    |-> page_size,
         tables       |-> table_set]

CandidateFiles ==
    {CandidateFile(page_size, table_set, has_manager, root_matches, node_variant,
                   init_variant, max_variant) :
        page_size \in PageSizes, table_set \in TableSets, has_manager \in BOOLEAN,
        root_matches \in BOOLEAN, node_variant \in NodeVariantRefs,
        init_variant \in NodeInitVariantRefs, max_variant \in MaxVariantIds}

InitValidate ==
    /\ pc = "validate"
    /\ brushes = <<>>
    /\ settings = NoSettings
    /\ BuilderFresh
    /\ file_exists = FALSE
    /\ ConvertIdle
    /\ RandomIdle
    /\ candidate \in CandidateFiles
    /\ verdict = "none"

\* validate_sut_file(filepath)
Validate ==
    /\ pc = "validate"
    /\ verdict = "none"
    /\ verdict' = IF ValidateSutFile(candidate) THEN "True" ELSE "False"
    /\ UNCHANGED <<buildVars, convVars, randVars, candidate>>

NextValidate == Validate

SpecValidate == InitValidate /\ [][NextValidate]_vars

\* what the specification asks of a file
WellFormed(F) ==
    /\ F.page_size = 1024
    /\ RequiredTables \subseteq F.tables
    /\ F.Manager # <<>>
    /\ RowsByPwId(F.Node, 1) # <<>>
    /\ F.Manager[1].RootUuid = RootNode(F).NodeUuid
    /\ \A k \in 1..Len(BrushNodes(F)) :
          LET n == BrushNodes(F)[k]
          IN  /\ n.NodeVariantID \in VariantIds(F)
              /\ n.NodeInitVariantID \in VariantIds(F)
              /\ n.NodeVariantID # n.NodeInitVariantID
    /\ F.Manager[1].MaxVariantID >= MaxVariantIdOf(F)

\* C24: validate_sut_file returns True only for files with page_size 1024,
\* the four tables, Manager.RootUuid equal to the NodeUuid of Node _PW_ID=1,
\* every brush node's NodeVariantID and NodeInitVariantID both in
\* Variant.VariantID and distinct, and Manager.MaxVariantID >=
\* max(Variant.VariantID); any other file is rejected.
C24_ValidatorSound ==
    verdict = "True" => WellFormed(candidate)

\* what validate_sut_file does decide: its True verdicts are exactly the
\* files that pass the checks it makes
ValidatorChecks(F) ==
    /\ F.page_size = 1024
    /\ RequiredTables \subseteq F.tables
    /\ F.Manager # <<>>
    /\ RowsByPwId(F.Node, 1) # <<>>
    /\ F.Manager[1].RootUuid = RootNode(F).NodeUuid
    /\ NodeVariantIds(F) \subseteq VariantIds(F)

ValidatorDecides ==
    /\ verdict = "True" => ValidatorChecks(candidate)
    /\ verdict = "False" => ~ValidatorChecks(candidate)

-----------------------------------------------------------------------------
(* The temporary .png of _insert_material_file *)

\* C25: the temporary PNG file _insert_material_file creates for an image
\* brush is removed on every exit path of that function, also when the layer
\* encoding raises or reports an invalid result: once create_sut_file has
\* returned or raised, no temporary file of the build is left.
C25_TempPngRemoved ==
    Exited => temp_pngs = 0

====
